---- MODULE Spec2Model ----
(***************************************************************************)
(* HRR-Numbers: integers as phase vectors over a basis of small primes     *)
(* (src/hrr_numbers.py).  A basis object (class HRRNumbers) holds the      *)
(* primes, the sharpness beta and the two lookup tables; a handle (class   *)
(* HRRInstance) holds a reference to its basis and a vector of complex     *)
(* numbers, one per prime.                                                 *)
(*                                                                         *)
(* Complex numbers are kept in polar form [mag, num, den]: mag = 0 is the  *)
(* number 0, mag = 1 is a non-zero number whose argument is num/den of a   *)
(* full turn (0 <= num < den, lowest terms).  The positive modulus of a    *)
(* non-zero number is not kept: np.angle (decode) and the arg-max of the   *)
(* retrieval do not depend on it.                                          *)
(*                                                                         *)
(* map_to_space is modelled in its sharp limit (beta -> infinity): the     *)
(* softmax weights become an equal blend of the rows of maximal            *)
(* similarity.  Floating-point rounding is not modelled.                   *)
(***************************************************************************)
EXTENDS Integers, Sequences, FiniteSets, TLC

VARIABLES bases, regs, ret, reqN

vars == <<bases, regs, ret, reqN>>

(***************************************************************************)
(* Bounds of the model.                                                    *)
(***************************************************************************)
\* Spec: a basis is requested with N in 1..MaxN
MaxN == 7
\* SpecMix: two bases, each requested with N in 1..MaxMixN
MaxMixN == 3
\* SpecBuild: a basis is requested with N in -NegN..MaxBuildN
MaxBuildN == 40
NegN == 2
\* Spec: encode is called with n in -MaxInt..MaxInt
MaxInt == 15
\* SpecBuild: encode is called with n in -MaxSmallInt..MaxSmallInt
MaxSmallInt == 7
\* SpecMix: encode is called with n in -MaxMixInt..MaxMixInt
MaxMixInt == 1

(***************************************************************************)
(* Program constants.                                                      *)
(***************************************************************************)
\* def __init__(self, N:int, beta:float=25)
DefaultBeta == 25
\* HRRNumbers(510510, beta=75) in examples/check_range.py
ExampleBeta == 75

Betas == {DefaultBeta, ExampleBeta}

(***************************************************************************)
(* Arithmetic helpers.                                                     *)
(***************************************************************************)
Abs(n) == IF n < 0 THEN -n ELSE n

RECURSIVE GCD(_, _)
GCD(a, b) == IF b = 0 THEN a ELSE GCD(b, a % b)

\* np.prod of a list of Python ints
RECURSIVE Prod(_)
Prod(s) == IF s = <<>> THEN 1 ELSE Head(s) * Prod(Tail(s))

\* np.max of a list
RECURSIVE MaxOf(_)
MaxOf(s) == IF Len(s) = 1 THEN s[1]
            ELSE LET m == MaxOf(Tail(s)) IN IF s[1] > m THEN s[1] ELSE m

(***************************************************************************)
(* Complex numbers in polar form.                                          *)
(***************************************************************************)
Zero == [mag |-> 0, num |-> 0, den |-> 1]

\* np.exp(2j*np.pi*k/d): the unit number at k/d of a turn
Phase(k, d) ==
    LET n == k % d
        g == GCD(n, d)
    IN  [mag |-> 1, num |-> n \div g, den |-> d \div g]

One == Phase(0, 1)

\* a * b on complex numbers: arguments add
CMul(a, b) ==
    IF a.mag = 0 \/ b.mag = 0 THEN Zero
    ELSE Phase(a.num * b.den + b.num * a.den, a.den * b.den)

\* .conj(): the argument is negated
CConj(a) == [mag |-> a.mag, num |-> (a.den - a.num) % a.den, den |-> a.den]

\* np.angle as a fraction <<n, d>> of a turn in (-1/2, 1/2]; np.angle(0) = 0
Angle(c) ==
    IF c.mag = 0 THEN <<0, 1>>
    ELSE IF 2 * c.num > c.den THEN <<c.num - c.den, c.den>>
    ELSE <<c.num, c.den>>

(***************************************************************************)
(* HRRNumbers._primes: the prime generator.  Its state is the list of      *)
(* primes found so far and the next candidate i; started is FALSE before   *)
(* the first next().                                                       *)
(***************************************************************************)
NewGen == [started |-> FALSE, primes |-> <<>>, i |-> 3]

\* for p in primes: the scan of candidate i from position k of the list;
\* "prime" (p**2 > i), "composite" (i%p == 0) or "exhausted"
RECURSIVE ScanCandidate(_, _, _)
ScanCandidate(primes, i, k) ==
    IF k > Len(primes) THEN "exhausted"
    ELSE IF primes[k] * primes[k] > i THEN "prime"
    ELSE IF i % primes[k] = 0 THEN "composite"
    ELSE ScanCandidate(primes, i, k + 1)

\* the while True loop up to its next yield
RECURSIVE RunToYield(_, _)
RunToYield(primes, i) ==
    IF ScanCandidate(primes, i, 1) = "prime"
    THEN [val |-> i, gen |-> [started |-> TRUE, primes |-> Append(primes, i), i |-> i + 1]]
    ELSE RunToYield(primes, i + 1)

\* next(p)
NextPrime(gen) ==
    IF ~gen.started
    THEN [val |-> 2, gen |-> [started |-> TRUE, primes |-> <<2>>, i |-> 3]]
    ELSE RunToYield(gen.primes, gen.i)

\* a loop condition that also appends when the product equals N
KeepAppendingInclusive(primes, N) == primes = <<>> \/ Prod(primes) <= N

\* the loop condition of __init__
KeepAppending(primes, N) == primes = <<>> \/ Prod(primes) < N

\* __init__: while not self.primes or np.prod(self.primes) < N: append(next(p))
RECURSIVE InitPrimes(_, _, _)
InitPrimes(N, primes, gen) ==
    IF KeepAppending(primes, N)
    THEN LET nx == NextPrime(gen) IN InitPrimes(N, Append(primes, nx.val), nx.gen)
    ELSE primes

(***************************************************************************)
(* HRRNumbers._build_maps.                                                 *)
(***************************************************************************)
\* the inner loop for k in range(1, p): the list n^1, n^2, ... mod p up to
\* the first repeat
RECURSIVE GList(_, _, _, _)
GList(n, p, k, glist) ==
    IF k >= p THEN glist
    ELSE LET m == (n ^ k) % p
         IN  IF \E q \in 1..Len(glist) : glist[q] = m THEN glist
             ELSE GList(n, p, k + 1, Append(glist, m))

\* for n in range(2, p): the first n whose list has p-1 entries
RECURSIVE SearchGenerator(_, _)
SearchGenerator(n, p) ==
    IF n >= p THEN <<>>
    ELSE LET glist == GList(n, p, 1, <<>>)
         IN  IF Len(glist) = p - 1 THEN glist ELSE SearchGenerator(n + 1, p)

\* the entry of `logarithms` for prime p
Logarithms(p) == IF p = 2 THEN <<1>> ELSE SearchGenerator(2, p)

\* mtable without line 108 (the top row is left at 0)
MTableEntryNoTopRow(primes, v, i) ==
    IF 1 <= v /\ v < primes[i] THEN Phase(Logarithms(primes[i])[v], primes[i])
    ELSE IF v = 0 THEN One
    ELSE Zero

\* mtable[v, i] after lines 103-108
MTableEntry(primes, v, i) ==
    IF v = MaxOf(primes) THEN One
    ELSE IF 1 <= v /\ v < primes[i] THEN Phase(Logarithms(primes[i])[v], primes[i])
    ELSE IF v = 0 THEN One
    ELSE Zero

\* atable[v, i] after lines 110-112
ATableEntry(primes, v, i) ==
    IF 1 <= v /\ v < primes[i] THEN Phase(v, primes[i] - 1) ELSE Zero

Rows(primes) == 0..MaxOf(primes)

BuildMaps(primes) ==
    [mtable |-> [v \in Rows(primes) |-> [i \in 1..Len(primes) |-> MTableEntry(primes, v, i)]],
     atable |-> [v \in Rows(primes) |-> [i \in 1..Len(primes) |-> ATableEntry(primes, v, i)]]]

\* HRRNumbers(N, beta)
HRRNumbers(N, beta) ==
    LET primes == InitPrimes(N, <<>>, NewGen)
        maps == BuildMaps(primes)
    IN  [built |-> TRUE, primes |-> primes, beta |-> beta,
         mtable |-> maps.mtable, atable |-> maps.atable]

NoBasis == [built |-> FALSE, primes |-> <<>>, beta |-> 0,
            mtable |-> <<>>, atable |-> <<>>]

\* max_value
MaxValue(B) == Prod(B.primes)

(***************************************************************************)
(* HRRNumbers.encode.  A handle is [parent, value]: parent is the identity *)
(* of the basis object, value the vector of complex numbers.               *)
(***************************************************************************)
NoHandle == [parent |-> 0, value |-> <<>>]

\* a range check that lets |n| = M through
EncodeInRangeInclusive(B, n) == Abs(n) <= Prod(B.primes)

\* assert abs(n) < np.prod(self.primes)
EncodeInRange(B, n) == Abs(n) < Prod(B.primes)

\* np.exp(2j*np.pi*np.array([(n%p)/p for p in self.primes]))
EncodeValue(B, n) == [i \in 1..Len(B.primes) |-> Phase(n % B.primes[i], B.primes[i])]

(***************************************************************************)
(* HRRNumbers.decode.                                                      *)
(***************************************************************************)
\* a _solve that drops the quotient b // a from x
RECURSIVE SolveNoQuotient(_, _)
SolveNoQuotient(a, b) ==
    IF a = 0 THEN <<0, 1>>
    ELSE LET r == SolveNoQuotient(b % a, a)
         IN  <<r[2] - r[1], r[1]>>

\* _solve: the extended Euclidean algorithm, <<x, y>>
RECURSIVE Solve(_, _)
Solve(a, b) ==
    IF a = 0 THEN <<0, 1>>
    ELSE LET r == Solve(b % a, a)
         IN  <<r[2] - (b \div a) * r[1], r[1]>>

\* theta[theta<0] += 2*np.pi : the angle as a fraction of a turn in [0, 1)
Theta(c) ==
    LET a == Angle(c)
    IN  IF a[1] < 0 THEN <<a[1] + a[2], a[2]>> ELSE a

\* np.round of n/d (n >= 0, d > 0): to the nearest integer, halves to even
RoundHalfEven(n, d) ==
    LET q == n \div d
        r == n % d
    IN  IF 2 * r < d THEN q
        ELSE IF 2 * r > d THEN q + 1
        ELSE IF q % 2 = 0 THEN q ELSE q + 1

\* rem = (primes*theta/(2*pi)).round().astype(int) % primes
Residues(B, value) ==
    [i \in 1..Len(B.primes) |->
        LET t == Theta(value[i])
        IN  RoundHalfEven(B.primes[i] * t[1], t[2]) % B.primes[i]]

\* the loop of lines 56-59 from index i on: sum of rem[i] * prod_i * coeff
RECURSIVE CRTSum(_, _, _, _)
CRTSum(primes, rem, prod, i) ==
    IF i > Len(primes) THEN 0
    ELSE LET prod_i == prod \div primes[i]
             coeff == Solve(prod_i, primes[i])[1]
         IN  rem[i] * prod_i * coeff + CRTSum(primes, rem, prod, i + 1)

\* a return that leaves out the final reduction
WrapResultMissing(res, prod) == res

\* return res % prod
WrapResult(res, prod) == res % prod

\* what decode returns: an integer (kind "int") or the residue array (kind "seq")
IntResult(n) == [kind |-> "int", val |-> n, vec |-> <<>>]
SeqResult(s) == [kind |-> "seq", val |-> 0, vec |-> s]

\* lines 49-52: the single-prime return comes before the residues return
DecodeEarly(B, rem, residues) ==
    IF Len(B.primes) = 1 THEN IntResult(rem[1])
    ELSE IF residues THEN SeqResult(rem)
    ELSE [kind |-> "none", val |-> 0, vec |-> <<>>]

DecodeValue(B, value, residues) ==
    LET rem == Residues(B, value)
        early == DecodeEarly(B, rem, residues)
        prod == Prod(B.primes)
    IN  IF early.kind # "none" THEN early
        ELSE IntResult(WrapResult(CRTSum(B.primes, rem, prod, 1), prod))

(***************************************************************************)
(* HRRNumbers.map_to_space, in the sharp limit of the softmax.             *)
(***************************************************************************)
\* a key table that is not swapped for origin = 'mul'
KeyTableFixed(B, origin) == B.mtable

\* m0 (keys) and m1 (values) after lines 68-71
KeyTable(B, origin) == IF origin = "mul" THEN B.atable ELSE B.mtable
ValueTable(B, origin) == IF origin = "mul" THEN B.mtable ELSE B.atable

\* The real part of c as a rational <<n, d>>, with the cosine of the argument
\* replaced by the piecewise-linear function 1 - 4*dist (dist the distance of
\* the argument to 0 on the circle, in turns): same sign and same order as
\* the cosine, which is all the arg-max reads.
RePart(c) ==
    IF c.mag = 0 THEN <<0, 1>>
    ELSE LET dist == IF 2 * c.num > c.den THEN c.den - c.num ELSE c.num
         IN  <<c.den - 4 * dist, c.den>>

RatGE(r, s) == r[1] * s[2] >= s[1] * r[2]

\* np.einsum('ij,j->ij', m0, x.conj()).real, column j
Similarity(m0, xj, j, v) == RePart(CMul(m0[v][j], CConj(xj)))

\* the largest similarity among rows 0..v of column j
RECURSIVE TopSimilarity(_, _, _, _)
TopSimilarity(m0, xj, j, v) ==
    LET s == Similarity(m0, xj, j, v)
    IN  IF v = 0 THEN s
        ELSE LET t == TopSimilarity(m0, xj, j, v - 1)
             IN  IF RatGE(s, t) THEN s ELSE t

\* the rows whose softmax weight survives the sharp limit: those of the
\* largest similarity
BestRows(m0, xj, j, top) ==
    {v \in DOMAIN m0 : RatGE(Similarity(m0, xj, j, v), top)}

RECURSIVE LCMOf(_)
LCMOf(S) ==
    IF S = {} THEN 1
    ELSE LET d == CHOOSE e \in S : TRUE
             l == LCMOf(S \ {d})
         IN  (d * l) \div GCD(d, l)

\* The sum of the complex numbers m1[v][j], v in rows, up to a positive
\* factor.  It is taken over the D-th roots of unity: count[r] rows hold the
\* root r/D; the D roots together sum to 0, so the smallest count cancels.
\* What is left is 0, or a positive multiple of one root.
SumRows(m1, rows, j) ==
    LET unit == {v \in rows : m1[v][j].mag = 1}
        D == LCMOf({m1[v][j].den : v \in unit})
        count == [r \in 0..(D - 1) |->
                    Cardinality({v \in unit : m1[v][j].num * (D \div m1[v][j].den) = r})]
        low == IF D = 1 THEN 0
               ELSE CHOOSE c \in {count[r] : r \in 0..(D - 1)} :
                        \A r \in 0..(D - 1) : c <= count[r]
        left == {r \in 0..(D - 1) : count[r] > low}
    IN  CASE left = {} -> Zero
          [] Cardinality(left) = 1 -> Phase(CHOOSE r \in left : TRUE, D)

\* The equal blend of the rows of m1 in `rows` (line 74 with equal weights):
\* one row is returned as it is, several are summed.
Blend(m1, rows, j) ==
    IF Cardinality(rows) = 1 THEN m1[CHOOSE v \in rows : TRUE][j]
    ELSE SumRows(m1, rows, j)

MapToSpace(B, x, origin) ==
    LET m0 == KeyTable(B, origin)
        m1 == ValueTable(B, origin)
        last == MaxOf(B.primes)
    IN  [j \in 1..Len(B.primes) |->
            Blend(m1, BestRows(m0, x[j], j, TopSimilarity(m0, x[j], j, last)), j)]

(***************************************************************************)
(* HRRInstance: the operators.  Each returns [ok, h]: ok = FALSE is the    *)
(* ValueError('Operands must share same parent object.').                  *)
(***************************************************************************)
\* a comparison of the bases by their contents
SameParentByValue(pa, pb) ==
    bases[pa].primes = bases[pb].primes /\ bases[pa].beta = bases[pb].beta

\* self.parent == other.parent: HRRNumbers defines no __eq__, so identity
SameParent(pa, pb) == pa = pb

Raised == [ok |-> FALSE, h |-> NoHandle]
Returned(parent, value) == [ok |-> TRUE, h |-> [parent |-> parent, value |-> value]]

\* self.value * other.value
VecMul(x, y) == [j \in DOMAIN x |-> CMul(x[j], y[j])]
\* a conjugate that is left out
VecConjSkipped(x) == x

\* value.conj()
VecConj(x) == [j \in DOMAIN x |-> CConj(x[j])]

\* __add__
HAdd(a, b) ==
    IF SameParent(a.parent, b.parent)
    THEN Returned(a.parent, VecMul(a.value, b.value))
    ELSE Raised

\* a divide that forgets the conjugate
LogOperandNoConj(B, value, divide) == MapToSpace(B, value, "add")

\* y after lines 153-155
LogOperand(B, value, divide) ==
    LET y == MapToSpace(B, value, "add")
    IN  IF divide THEN VecConj(y) ELSE y

\* __mul__
HMul(a, b, divide) ==
    IF SameParent(a.parent, b.parent)
    THEN LET B == bases[a.parent]
             x == MapToSpace(B, a.value, "add")
             y == LogOperand(B, b.value, divide)
         IN  Returned(a.parent, MapToSpace(B, VecMul(x, y), "mul"))
    ELSE Raised

\* __neg__
HNeg(a) == Returned(a.parent, VecConj(a.value))

\* __sub__
HSub(a, b) == HAdd(a, HNeg(b).h)

\* __truediv__
HDiv(a, b) == HMul(a, b, TRUE)

(***************************************************************************)
(* The state.                                                              *)
(*   bases : the basis objects, by identity (NoBasis: not yet built)       *)
(*   regs  : two program variables x and y holding handles                 *)
(*   ret   : what the last call returned or raised                         *)
(*   reqN  : the N each basis was requested with (history, SpecBuild only) *)
(* A register also carries a history field expr that says how its handle   *)
(* was made from encoded integers; the program does not read it.           *)
(*                                                                         *)
(* A run of the client program is the shape of examples/check_range.py:    *)
(* build, encode the operands, apply operators, then decode the result;    *)
(* once it has decoded, the run only decodes.                              *)
(***************************************************************************)
BasisIds == {1, 2}
RegNames == {"x", "y"}

Expr(k, a, b) == [k |-> k, a |-> a, b |-> b]
NoReg == [h |-> NoHandle, expr |-> Expr("none", 0, 0)]

NoRet == [kind |-> "none", val |-> 0, vec |-> <<>>]
BasisRet == [kind |-> "basis", val |-> 0, vec |-> <<>>]
HandleRet == [kind |-> "handle", val |-> 0, vec |-> <<>>]
RangeError == [kind |-> "RangeError", val |-> 0, vec |-> <<>>]
BasisMismatchError == [kind |-> "BasisMismatchError", val |-> 0, vec |-> <<>>]

\* the run has reached its decode
Decoded == ret.kind \in {"int", "seq"}

Init ==
    /\ bases = [b \in BasisIds |-> NoBasis]
    /\ regs = [r \in RegNames |-> NoReg]
    /\ ret = NoRet
    /\ reqN = [b \in BasisIds |-> 0]

\* B = HRRNumbers(N, beta), a new object
Construct(b, N, beta) ==
    /\ ~Decoded
    /\ ~bases[b].built
    /\ bases' = [bases EXCEPT ![b] = HRRNumbers(N, beta)]
    /\ ret' = BasisRet
    /\ UNCHANGED regs

\* r = B.encode(n)   (a program variable is assigned by encode once)
Encode(r, b, n) ==
    /\ ~Decoded
    /\ bases[b].built
    /\ regs[r] = NoReg
    /\ IF EncodeInRange(bases[b], n)
       THEN /\ regs' = [regs EXCEPT ![r] =
                          [h |-> [parent |-> b, value |-> EncodeValue(bases[b], n)],
                           expr |-> Expr("enc", n, 0)]]
            /\ ret' = HandleRet
       ELSE /\ ret' = RangeError
            /\ UNCHANGED regs
    /\ UNCHANGED <<bases, reqN>>

\* the history of x after x = x op y
BinaryExpr(op, ex, ey) ==
    IF ex.k = "enc" /\ ey.k = "enc" THEN Expr(op, ex.a, ey.a)
    ELSE IF op = "div" /\ ex.k = "mul" /\ ey.k = "enc" /\ ex.b = ey.a
         THEN Expr("muldiv", ex.a, ex.b)
    ELSE Expr("other", 0, 0)

\* x = x op y: result is what the operator returned or raised
Binary(op, result) ==
    /\ ~Decoded
    /\ regs["x"] # NoReg
    /\ regs["y"] # NoReg
    /\ \E res \in {result} :
          IF res.ok
          THEN /\ regs' = [regs EXCEPT !["x"] =
                             [h |-> res.h,
                              expr |-> BinaryExpr(op, regs["x"].expr, regs["y"].expr)]]
               /\ ret' = HandleRet
          ELSE /\ ret' = BasisMismatchError
               /\ UNCHANGED regs
    /\ UNCHANGED <<bases, reqN>>

\* x = x + y
Add == Binary("add", HAdd(regs["x"].h, regs["y"].h))

\* x = x - y
Sub == Binary("sub", HSub(regs["x"].h, regs["y"].h))

\* x = x * y
Mul == Binary("mul", HMul(regs["x"].h, regs["y"].h, FALSE))

\* x = x / y
Div == Binary("div", HDiv(regs["x"].h, regs["y"].h))

\* x = -x
Neg ==
    /\ ~Decoded
    /\ regs["x"] # NoReg
    /\ regs' = [regs EXCEPT !["x"] =
                  [h |-> HNeg(regs["x"].h).h,
                   expr |-> IF regs["x"].expr.k = "enc"
                            THEN Expr("neg", regs["x"].expr.a, 0)
                            ELSE Expr("other", 0, 0)]]
    /\ ret' = HandleRet
    /\ UNCHANGED <<bases, reqN>>

\* HRRInstance.decode: x.decode(residues)
Decode(residues) ==
    /\ regs["x"] # NoReg
    /\ ret' = DecodeValue(bases[regs["x"].h.parent], regs["x"].h.value, residues)
    /\ UNCHANGED <<bases, regs, reqN>>

(***************************************************************************)
(* Spec: one basis, the whole arithmetic.                                  *)
(***************************************************************************)
NewBasis ==
    \E N \in 1..MaxN, beta \in Betas : Construct(1, N, beta) /\ UNCHANGED reqN

EncodeX == \E n \in (-MaxInt)..MaxInt : Encode("x", 1, n)

EncodeY == \E n \in (-MaxInt)..MaxInt : Encode("y", 1, n)

DecodeX == \E residues \in BOOLEAN : Decode(residues)

Next ==
    \/ NewBasis
    \/ EncodeX
    \/ EncodeY
    \/ Add
    \/ Sub
    \/ Mul
    \/ Div
    \/ Neg
    \/ DecodeX

Spec == Init /\ [][Next]_vars

(***************************************************************************)
(* SpecMix: two independently built bases, handles of either.              *)
(***************************************************************************)
NewBasisMix ==
    \E b \in BasisIds, N \in 1..MaxMixN, beta \in Betas :
        Construct(b, N, beta) /\ UNCHANGED reqN

EncodeMix ==
    \E r \in RegNames, b \in BasisIds, n \in (-MaxMixInt)..MaxMixInt : Encode(r, b, n)

NextMix ==
    \/ NewBasisMix
    \/ EncodeMix
    \/ Add
    \/ Sub
    \/ Mul
    \/ Div
    \/ Neg
    \/ DecodeX

SpecMix == Init /\ [][NextMix]_vars

(***************************************************************************)
(* SpecBuild: the constructor over a range of requested bounds, with the   *)
(* request remembered, then encode and decode on the basis built.          *)
(***************************************************************************)
NewBasisReq ==
    \E N \in (-NegN)..MaxBuildN, beta \in Betas :
        Construct(1, N, beta) /\ reqN' = [reqN EXCEPT ![1] = N]

EncodeSmall == \E n \in (-MaxSmallInt)..MaxSmallInt : Encode("x", 1, n)

NextBuild ==
    \/ NewBasisReq
    \/ EncodeSmall
    \/ DecodeX

SpecBuild == Init /\ [][NextBuild]_vars

(***************************************************************************)
(* Vocabulary of the properties.                                           *)
(***************************************************************************)
X == regs["x"]
Y == regs["y"]
\* the basis of the handle in x
BX == bases[X.h.parent]
\* the modulus M of the basis of x
MX == MaxValue(BX)

IsPrime(n) == n >= 2 /\ \A d \in 2..(n - 1) : n % d # 0

\* g^k mod p by repeated multiplication
RECURSIVE PowMod(_, _, _)
PowMod(g, k, p) == IF k = 0 THEN 1 % p ELSE (g * PowMod(g, k - 1, p)) % p

\* g generates the non-zero residues mod p
IsPrimitiveRoot(g, p) == {PowMod(g, k, p) : k \in 1..(p - 1)} = 1..(p - 1)

\* the discrete logarithm of v base g, taken in 1..p-1
DLog(g, v, p) == CHOOSE k \in 1..(p - 1) : PowMod(g, k, p) = v

\* the residues of n, one per prime
ResiduesOf(n, primes) == [i \in 1..Len(primes) |-> n % primes[i]]

\* the vector of zeros of the length of the basis
ZeroVector(B) == [i \in 1..Len(B.primes) |-> Zero]

(***************************************************************************)
(* C1: add, subtract and negate are exact.  Whenever the program decodes   *)
(* (as an integer) a handle made as encode(a) + encode(b), encode(a) -     *)
(* encode(b) or -encode(a), with |a|, |b| < M, the result is (a+b) mod M,  *)
(* (a-b) mod M, (M-a) mod M, for every basis and beta.                     *)
(***************************************************************************)
C1_Expected ==
    CASE X.expr.k = "add" -> (X.expr.a + X.expr.b) % MX
      [] X.expr.k = "sub" -> (X.expr.a - X.expr.b) % MX
      [] X.expr.k = "neg" -> (MX - X.expr.a) % MX

C1_AddSubNegExact ==
    [][(Decode(FALSE) /\ X.expr.k \in {"add", "sub", "neg"})
          => ret' = IntResult(C1_Expected)]_vars

C1_Witness ==
    /\ Decoded /\ ret.kind = "int"
    /\ X.expr.k = "add" /\ X.expr.a + X.expr.b >= 30
    /\ Len(BX.primes) = 3 /\ BX.beta = ExampleBeta
    /\ ret.val = X.expr.a + X.expr.b - 30

(***************************************************************************)
(* C2: decode(encode(n), residues=True) returns the sequence of residues   *)
(* [n mod p_1, ..., n mod p_k], one entry per prime, for any basis,        *)
(* a single-prime basis included, and any n in [0, M).                     *)
(***************************************************************************)
C2_ResidueSequence ==
    [][(Decode(TRUE) /\ X.expr.k = "enc" /\ 0 <= X.expr.a /\ X.expr.a < MX)
          => ret' = SeqResult(ResiduesOf(X.expr.a, BX.primes))]_vars

(***************************************************************************)
(* C3: decode (as an integer) is total and range-bounded: on any handle    *)
(* the program has made it returns an integer r with 0 <= r < M; for a     *)
(* directly encoded n with -M < n < 0 it returns n + M.                    *)
(***************************************************************************)
C3_DecodeInRange ==
    [][Decode(FALSE)
          => /\ ret'.kind = "int"
             /\ 0 <= ret'.val /\ ret'.val < MX
             /\ (X.expr.k = "enc" /\ X.expr.a < 0) => ret'.val = X.expr.a + MX]_vars

C3_Witness ==
    /\ Decoded /\ ret.kind = "int"
    /\ X.expr.k = "other" /\ Len(BX.primes) = 3
    /\ ret.val = 29

(***************************************************************************)
(* C4: encode(n) fails with the range error and makes no handle when       *)
(* |n| >= M; it succeeds when |n| < M, negative n included.                *)
(***************************************************************************)
C4_EncodeRange ==
    [][\A n \in (-MaxSmallInt)..MaxSmallInt :
          Encode("x", 1, n)
             => IF Abs(n) >= MaxValue(bases[1])
                THEN ret' = RangeError /\ regs' = regs
                ELSE /\ ret' = HandleRet
                     /\ regs'["x"].h.parent = 1
                     /\ Len(regs'["x"].h.value) = Len(bases[1].primes)]_vars

C4_Witness ==
    /\ ret = RangeError
    /\ X = NoReg
    /\ bases[1].primes = <<2, 3>>

(***************************************************************************)
(* C5: add, subtract, multiply and divide on handles of two different      *)
(* basis objects (equal primes and beta included) fail with the basis      *)
(* mismatch error and return no handle; on handles of one basis object     *)
(* they return a handle bound to that object.                              *)
(***************************************************************************)
C5_BasisMismatch ==
    [][(Add \/ Sub \/ Mul \/ Div)
          => IF X.h.parent # Y.h.parent
             THEN ret' = BasisMismatchError /\ regs' = regs
             ELSE ret' = HandleRet /\ regs'["x"].h.parent = X.h.parent]_vars

C5_Witness ==
    /\ ret = BasisMismatchError
    /\ X.h.parent # Y.h.parent
    /\ bases[1] = bases[2]
    /\ bases[1].primes = <<2, 3>>

(***************************************************************************)
(* C6: for a requested bound N the basis is the shortest non-empty prefix  *)
(* of the primes 2, 3, 5, ... whose product is >= N: strictly increasing   *)
(* primes, none skipped, [2] alone when N <= 2, and otherwise the product  *)
(* without the last prime is < N.                                          *)
(***************************************************************************)
C6_ShortestPrimePrefix ==
    \A b \in BasisIds :
        bases[b].built =>
            LET primes == bases[b].primes
                k == Len(primes)
            IN  /\ k >= 1
                /\ \A i \in 1..k : IsPrime(primes[i])
                /\ \A i \in 1..(k - 1) : primes[i] < primes[i + 1]
                /\ \A q \in 2..primes[k] : IsPrime(q) => \E i \in 1..k : primes[i] = q
                /\ Prod(primes) >= reqN[b]
                /\ reqN[b] <= 2 => primes = <<2>>
                /\ reqN[b] > 2 => Prod(SubSeq(primes, 1, k - 1)) < reqN[b]

C6_Witness ==
    /\ bases[1].built
    /\ reqN[1] = 31
    /\ bases[1].primes = <<2, 3, 5, 7>>

(***************************************************************************)
(* C7 as stated: a basis requested with N = 7 is the single-prime basis    *)
(* [7], and decode(encode(n)) = n for 0 <= n < 7.                          *)
(***************************************************************************)
C7_Original ==
    (bases[1].built /\ reqN[1] = 7) =>
        /\ bases[1].primes = <<7>>
        /\ (Decoded /\ ret.kind = "int" /\ X.expr.k = "enc"
              /\ 0 <= X.expr.a /\ X.expr.a < 7) => ret.val = X.expr.a

(***************************************************************************)
(* C7 as amended: a basis requested with N = 7 has the primes [2, 3, 5]    *)
(* (M = 30), and decode(encode(n)) = n for 0 <= n < 7.                     *)
(***************************************************************************)
C7_BasisForSeven ==
    (bases[1].built /\ reqN[1] = 7) =>
        /\ bases[1].primes = <<2, 3, 5>>
        /\ MaxValue(bases[1]) = 30
        /\ (Decoded /\ ret.kind = "int" /\ X.expr.k = "enc"
              /\ 0 <= X.expr.a /\ X.expr.a < 7) => ret.val = X.expr.a

C7_Witness ==
    /\ bases[1].built /\ reqN[1] = 7
    /\ Decoded /\ ret.kind = "int"
    /\ X.expr.k = "enc" /\ X.expr.a = 5
    /\ ret.val = 5

(***************************************************************************)
(* C8: with sharp retrieval, division inverts multiplication when every    *)
(* residue of the divisor is non-zero: decode((encode(a) * encode(b)) /    *)
(* encode(b)) = a for a, b in [0, M); and a division never raises on       *)
(* handles of one basis, whatever the residues of the divisor: it returns  *)
(* a handle that decodes into [0, M).                                      *)
(***************************************************************************)
AllResiduesNonZero(n, primes) == \A i \in 1..Len(primes) : n % primes[i] # 0

C8_DivisionInverts ==
    /\ (Decoded /\ ret.kind = "int" /\ X.expr.k = "muldiv"
           /\ 0 <= X.expr.a /\ X.expr.a < MX /\ 0 <= X.expr.b /\ X.expr.b < MX
           /\ AllResiduesNonZero(X.expr.b, BX.primes))
          => ret.val = X.expr.a
    /\ (X.expr.k = "enc" /\ Y.expr.k = "enc" /\ X.h.parent = Y.h.parent
           /\ ~AllResiduesNonZero(Y.expr.a, BX.primes))
          => HDiv(X.h, Y.h).ok
    /\ (X.expr.k = "div" /\ ~AllResiduesNonZero(X.expr.b, BX.primes))
          => LET d == DecodeValue(BX, X.h.value, FALSE)
             IN  d.kind = "int" /\ 0 <= d.val /\ d.val < MX

C8_Witness ==
    /\ Decoded /\ ret.kind = "int"
    /\ X.expr.k = "muldiv" /\ X.expr.a = 10 /\ X.expr.b = 7
    /\ Len(BX.primes) = 3
    /\ ret.val = 10

(***************************************************************************)
(* C9: with sharp retrieval, multiply composes the residues in every       *)
(* slot: for a, b in [0, M) the handle encode(a) * encode(b) holds in slot *)
(* i the residue ((a mod p_i) * (b mod p_i)) mod p_i and decodes to        *)
(* (a*b) mod M.  Where a residue is 0, the first retrieval pass gives the  *)
(* number 0, and the second pass takes the number 0 to the residue 0       *)
(* (phase 1).                                                              *)
(***************************************************************************)
C9_MultiplyComposes ==
    /\ (X.expr.k = "mul" /\ 0 <= X.expr.a /\ X.expr.a < MX
           /\ 0 <= X.expr.b /\ X.expr.b < MX)
          => /\ Residues(BX, X.h.value) =
                   [i \in 1..Len(BX.primes) |->
                      ((X.expr.a % BX.primes[i]) * (X.expr.b % BX.primes[i])) % BX.primes[i]]
             /\ DecodeValue(BX, X.h.value, FALSE) = IntResult((X.expr.a * X.expr.b) % MX)
    /\ X.expr.k = "enc"
          => /\ \A i \in 1..Len(BX.primes) :
                   X.expr.a % BX.primes[i] = 0
                      => MapToSpace(BX, X.h.value, "add")[i] = Zero
             /\ MapToSpace(BX, ZeroVector(BX), "mul") = [i \in 1..Len(BX.primes) |-> One]

C9_Witness ==
    /\ X.expr.k = "mul" /\ X.expr.a = 10 /\ X.expr.b = 9
    /\ Len(BX.primes) = 3
    /\ Residues(BX, X.h.value) = <<0, 0, 0>>

(***************************************************************************)
(* C10 as stated: row v (1 <= v < p_i) of the multiplicative-origin table  *)
(* holds the phase exp(2 pi i log_g(v) / p_i), log_g the discrete          *)
(* logarithm base a primitive root g of p_i; row 0 and the top row hold    *)
(* phase 1; the additive-origin table holds exp(2 pi i v / (p_i - 1)) at   *)
(* row v and 0 at row 0.                                                   *)
(***************************************************************************)
TablesAnchored(B) ==
    \A i \in 1..Len(B.primes) :
        /\ B.mtable[0][i] = One
        /\ B.mtable[MaxOf(B.primes)][i] = One
        /\ B.atable[0][i] = Zero
        /\ \A v \in 1..(B.primes[i] - 1) : B.atable[v][i] = Phase(v, B.primes[i] - 1)

C10_Original ==
    \A b \in BasisIds :
        bases[b].built =>
            /\ TablesAnchored(bases[b])
            /\ \A i \in 1..Len(bases[b].primes) :
                  LET p == bases[b].primes[i]
                  IN  \E g \in 1..(p - 1) :
                         /\ IsPrimitiveRoot(g, p)
                         /\ \A v \in 1..(p - 1) :
                               bases[b].mtable[v][i] = Phase(DLog(g, v, p), p)

(***************************************************************************)
(* C10 as amended: row v (1 <= v < p_i) of the multiplicative-origin table *)
(* holds the phase exp(2 pi i (g^v mod p_i) / p_i), the residue phase of   *)
(* the v-th power of a primitive root g of p_i (the least one; for p_i = 2 *)
(* the list of powers is [1] without a search): the row index is the       *)
(* discrete logarithm and the entry the residue.  Row 0 and the top row    *)
(* hold phase 1; the additive-origin table holds exp(2 pi i v / (p_i - 1)) *)
(* at row v and 0 at row 0.                                                *)
(***************************************************************************)
C10_TablesHoldPowers ==
    \A b \in BasisIds :
        bases[b].built =>
            /\ TablesAnchored(bases[b])
            /\ \A i \in 1..Len(bases[b].primes) :
                  LET p == bases[b].primes[i]
                  IN  \E g \in 1..(p - 1) :
                         /\ IsPrimitiveRoot(g, p)
                         /\ \A h \in 2..(g - 1) : ~IsPrimitiveRoot(h, p)
                         /\ \A v \in 1..(p - 1) :
                               bases[b].mtable[v][i] = Phase(PowMod(g, v, p), p)

C10_Witness ==
    /\ bases[1].built
    /\ bases[1].primes = <<2, 3, 5, 7>>
    /\ bases[1].mtable[3][4] = Phase(6, 7)
    /\ bases[1].mtable[1][3] = Phase(2, 5)

====
